---- MODULE Spec2Model ----
(***************************************************************************)
(* The invoice-processing request path of the chat route                   *)
(* (app/(chat)/api/chat/route.ts, POST) and the invoice queries            *)
(* (lib/db/invoice-queries.ts: saveInvoice and friends) over the Invoice   *)
(* and InvoiceLineItem tables of lib/db/schema.ts.                         *)
(*                                                                         *)
(* JavaScript values are records [k, s, n]: k is the kind, s the string    *)
(* of a string value, n the number of a number value.  A decimal amount    *)
(* is held in thousandths (120.50 is 120500), a Date in milliseconds       *)
(* since 2024-01-01T00:00:00.000Z, a stored timestamp in seconds since     *)
(* the same instant.                                                       *)
(***************************************************************************)
EXTENDS Integers, Sequences, FiniteSets, TLC

\* ------------------------------------------------------------------ bounds

\* Requests handled one after the other in a behaviour.
MaxRequests == 1

\* The wall clock stops advancing at MaxTime ticks.
MaxTime == 4

\* saveInvoice calls made directly on the queries in a behaviour.
MaxSaves == 2

\* updateInvoiceStatus calls made directly in a behaviour.
MaxUpdates == 1

\* The largest amount converted to minor units and back, in thousandths.
MaxAmount == 2000

\* ------------------------------------------------------------ JS values

Undefined == [k |-> "undefined", s |-> "", n |-> 0]
Null      == [k |-> "null", s |-> "", n |-> 0]
NaN       == [k |-> "NaN", s |-> "", n |-> 0]
Str(x)    == [k |-> "string", s |-> x, n |-> 0]
\* A decimal number, in thousandths.
Num(m)    == [k |-> "number", s |-> "", n |-> m]
\* A whole number (cents, quantity, seconds).
Int32(i)  == [k |-> "integer", s |-> "", n |-> i]
\* A Date object holding a valid time value (milliseconds), or Invalid Date.
DateOf(ms)  == [k |-> "date", s |-> "", n |-> ms]
InvalidDate == [k |-> "invalidDate", s |-> "", n |-> 0]

\* JavaScript truthiness, for `a || b` and `c ? x : y`.
Truthy(v) ==
    CASE v.k = "undefined" -> FALSE
      [] v.k = "null"      -> FALSE
      [] v.k = "NaN"       -> FALSE
      [] v.k = "string"    -> v.s # ""
      [] v.k = "number"    -> v.n # 0
      [] v.k = "integer"   -> v.n # 0
      [] OTHER             -> TRUE

\* The thousandths x, of -6000..130000, for which the double x/1000 * 100
\* lies just below the tie k + 0.5 that the decimal product sits on
\* (1.005 * 100 is 100.49999999999999 in IEEE-754 double arithmetic,
\* -0.035 * 100 is -3.5000000000000004).
DoubleTieBelow ==
    {-5105, -5065, -5025, -4985, -4855, -4815, -4775, -4735, -4605, -4565,
     -4525, -4485, -4355, -4315, -4275, -4235, -4105, -4065, -4025, -2555,
     -2365, -2345, -2325, -2305, -2115, -2095, -2075, -2055, -1245, -1235,
     -1225, -1215, -555, -545, -275, -35, 145, 285, 565, 575,
     1005, 1015, 1025, 1035, 1255, 1265, 1275, 2135, 2155, 2175,
     2195, 2385, 2405, 2425, 2445, 4015, 4145, 4185, 4225, 4265,
     4395, 4435, 4475, 4515, 4645, 4685, 4725, 4765, 4895, 4935,
     4975, 5015, 8075, 8155, 8165, 8245, 8325, 8405, 8415, 8495,
     8575, 8655, 8665, 8745, 8825, 8905, 8915, 8995, 9075, 9155,
     9165, 9245, 9325, 9405, 9415, 9495, 9575, 9655, 9665, 9745,
     9825, 9905, 9915, 9995, 10075, 10155, 10165, 16025, 16115, 16185,
     16205, 16275, 16365, 16435, 16455, 16525, 16615, 16685, 16705, 16775,
     16865, 16935, 16955, 17025, 17115, 17185, 17205, 17275, 17365, 17435,
     17455, 17525, 17615, 17685, 17705, 17775, 17865, 17935, 17955, 18025,
     18115, 18185, 18205, 18275, 18365, 18435, 18455, 18525, 18615, 18685,
     18705, 18775, 18865, 18935, 18955, 19025, 19115, 19185, 19205, 19275,
     19365, 19435, 19455, 19525, 19615, 19685, 19705, 19775, 19865, 19935,
     19955, 20025, 20115, 20185, 20205, 20275, 20365, 20435, 20455, 32035,
     32105, 32175, 32245, 32285, 32355, 32425, 32495, 32535, 32605, 32675,
     32745, 32785, 32855, 32925, 32995, 33035, 33105, 33175, 33245, 33285,
     33355, 33425, 33495, 33535, 33605, 33675, 33745, 33785, 33855, 33925,
     33995, 34035, 34105, 34175, 34245, 34285, 34355, 34425, 34495, 34535,
     34605, 34675, 34745, 34785, 34855, 34925, 34995, 35035, 35105, 35175,
     35245, 35285, 35355, 35425, 35495, 35535, 35605, 35675, 35745, 35785,
     35855, 35925, 35995, 36035, 36105, 36175, 36245, 36285, 36355, 36425,
     36495, 36535, 36605, 36675, 36745, 36785, 36855, 36925, 36995, 37035,
     37105, 37175, 37245, 37285, 37355, 37425, 37495, 37535, 37605, 37675,
     37745, 37785, 37855, 37925, 37995, 38035, 38105, 38175, 38245, 38285,
     38355, 38425, 38495, 38535, 38605, 38675, 38745, 38785, 38855, 38925,
     38995, 39035, 39105, 39175, 39245, 39285, 39355, 39425, 39495, 39535,
     39605, 39675, 39745, 39785, 39855, 39925, 39995, 40035, 40105, 40175,
     40245, 40285, 40355, 40425, 40495, 40535, 40605, 40675, 40745, 40785,
     40855, 40925, 64085, 64115, 64195, 64225, 64335, 64365, 64445, 64475,
     64585, 64615, 64695, 64725, 64835, 64865, 64945, 64975, 65085, 65115,
     65195, 65225, 65335, 65365, 65445, 65475, 65585, 65615, 65695, 65725,
     65835, 65865, 65945, 65975, 66085, 66115, 66195, 66225, 66335, 66365,
     66445, 66475, 66585, 66615, 66695, 66725, 66835, 66865, 66945, 66975,
     67085, 67115, 67195, 67225, 67335, 67365, 67445, 67475, 67585, 67615,
     67695, 67725, 67835, 67865, 67945, 67975, 68085, 68115, 68195, 68225,
     68335, 68365, 68445, 68475, 68585, 68615, 68695, 68725, 68835, 68865,
     68945, 68975, 69085, 69115, 69195, 69225, 69335, 69365, 69445, 69475,
     69585, 69615, 69695, 69725, 69835, 69865, 69945, 69975, 70085, 70115,
     70195, 70225, 70335, 70365, 70445, 70475, 70585, 70615, 70695, 70725,
     70835, 70865, 70945, 70975, 71085, 71115, 71195, 71225, 71335, 71365,
     71445, 71475, 71585, 71615, 71695, 71725, 71835, 71865, 71945, 71975,
     72085, 72115, 72195, 72225, 72335, 72365, 72445, 72475, 72585, 72615,
     72695, 72725, 72835, 72865, 72945, 72975, 73085, 73115, 73195, 73225,
     73335, 73365, 73445, 73475, 73585, 73615, 73695, 73725, 73835, 73865,
     73945, 73975, 74085, 74115, 74195, 74225, 74335, 74365, 74445, 74475,
     74585, 74615, 74695, 74725, 74835, 74865, 74945, 74975, 75085, 75115,
     75195, 75225, 75335, 75365, 75445, 75475, 75585, 75615, 75695, 75725,
     75835, 75865, 75945, 75975, 76085, 76115, 76195, 76225, 76335, 76365,
     76445, 76475, 76585, 76615, 76695, 76725, 76835, 76865, 76945, 76975,
     77085, 77115, 77195, 77225, 77335, 77365, 77445, 77475, 77585, 77615,
     77695, 77725, 77835, 77865, 77945, 77975, 78085, 78115, 78195, 78225,
     78335, 78365, 78445, 78475, 78585, 78615, 78695, 78725, 78835, 78865,
     78945, 78975, 79085, 79115, 79195, 79225, 79335, 79365, 79445, 79475,
     79585, 79615, 79695, 79725, 79835, 79865, 79945, 79975, 80085, 80115,
     80195, 80225, 80335, 80365, 80445, 80475, 80585, 80615, 80695, 80725,
     80835, 80865, 80945, 80975, 81085, 81115, 81195, 81225, 81335, 81365,
     81445, 81475, 81585, 81615, 81695, 81725, 81835, 81865, 128015, 128045,
     128075, 128105, 128265, 128295, 128325, 128355, 128515, 128545, 128575, 128605,
     128765, 128795, 128825, 128855, 129015, 129045, 129075, 129105, 129265, 129295,
     129325, 129355, 129515, 129545, 129575, 129605, 129765, 129795, 129825, 129855}

\* Math.round(x) * 100: the amount rounded to whole units first.
MathRoundThenTimes100(m) == ((m + 500) \div 1000) * 100

\* Math.round(x * 100) for the decimal x = m / 1000: the product in double
\* arithmetic, rounded to the nearest integer, ties towards +Infinity.
MathRoundTimes100(m) ==
    IF m % 10 = 5 /\ m \in DoubleTieBelow
    THEN ((m + 5) \div 10) - 1
    ELSE (m + 5) \div 10

\* Math.floor in place of Math.round.
toCents_Truncating(v) ==
    CASE v.k = "number"  -> Int32(v.n \div 10)
      [] v.k = "integer" -> Int32(v.n * 100)
      [] v.k = "null"    -> Int32(0)
      [] OTHER           -> NaN

\* Math.round(v * 100) for a JS value v: a whole number times 100 is
\* exact, undefined * 100 is NaN, null * 100 is 0, and a string that is
\* not a numeral (as every string here) gives NaN.
toCents(v) ==
    CASE v.k = "number"  -> Int32(MathRoundTimes100(v.n))
      [] v.k = "integer" -> Int32(v.n * 100)
      [] v.k = "null"    -> Int32(0)
      [] OTHER           -> NaN

\* The ISO-8601 strings the extraction returns, as milliseconds since
\* 2024-01-01T00:00:00.000Z; any other string does not parse.
IsoDates ==
    [s \in {"2024-01-01T00:00:00.000Z", "2024-01-01T00:00:00.500Z",
            "2024-01-15T00:00:00.000Z"} |->
        CASE s = "2024-01-01T00:00:00.000Z" -> 0
          [] s = "2024-01-01T00:00:00.500Z" -> 500
          [] s = "2024-01-15T00:00:00.000Z" -> 1209600000]

\* new Date(v) for a string or an absent v.
NewDate(v) ==
    IF v.k = "string" /\ v.s \in DOMAIN IsoDates
    THEN DateOf(IsoDates[v.s])
    ELSE InvalidDate

\* ------------------------------------------------- the model's response

\* One line item of the extraction's `data.lineItems`.
LineItem(description, quantity, unitPrice, totalPrice, taxRate, taxAmount) ==
    [description |-> description, quantity |-> quantity,
     unitPrice |-> unitPrice, totalPrice |-> totalPrice,
     taxRate |-> taxRate, taxAmount |-> taxAmount,
     sku |-> Undefined, category |-> Undefined]

NoErrors   == [k |-> "undefined", items |-> << >>]
NullErrors == [k |-> "null", items |-> << >>]
Errors(xs) == [k |-> "array", items |-> xs]

NoLineItems == [k |-> "undefined", items |-> << >>]
Items(xs)   == [k |-> "array", items |-> xs]

\* The `validation` member of the decoded response.
NoValidation == [k |-> "undefined", status |-> Undefined, errors |-> NoErrors]
Validation(status, errors) ==
    [k |-> "object", status |-> status, errors |-> errors]

\* The `data` member of the decoded response: the scenario payload of the
\* specification (INV-1, 120.50, no currency, no line items).
BaseData ==
    [k |-> "object",
     invoiceNumber |-> Str("INV-1"),
     issueDate |-> Str("2024-01-01T00:00:00.000Z"),
     dueDate |-> Str("2024-01-15T00:00:00.000Z"),
     totalAmount |-> Num(120500),
     currency |-> Undefined,
     customerName |-> Str("Acme"),
     customerAddress |-> Undefined,
     customerContact |-> Undefined,
     customerTaxId |-> Undefined,
     vendorName |-> Str("Bolt Co"),
     vendorAddress |-> Undefined,
     vendorContact |-> Undefined,
     vendorTaxId |-> Undefined,
     paymentTerms |-> Undefined,
     notes |-> Undefined,
     originalFileUrl |-> Undefined,
     lineItems |-> Items(<< >>)]

NoData   == [BaseData EXCEPT !.k = "undefined"]
NullData == [BaseData EXCEPT !.k = "null"]

\* A value JSON.parse returns: an object with `validation` and `data`, or
\* the JSON literal null.
Json(validation, data) ==
    [k |-> "object", validation |-> validation, data |-> data]
JsonNull == [k |-> "null", validation |-> NoValidation, data |-> NoData]

Valid   == Validation(Str("valid"), NoErrors)
Invalid(errors) == Validation(Str("invalid"), errors)

\* The fields the invoice columns declare NOT NULL / the specification
\* requires.
RequiredFields ==
    {"invoiceNumber", "issueDate", "dueDate", "totalAmount",
     "customerName", "vendorName"}

Item1 == LineItem(Str("Widget"), Int32(2), Num(10000), Num(20000),
                  Undefined, Undefined)
Item2 == LineItem(Str("Service"), Int32(1), Num(19990), Num(19990),
                  Int32(2000), Num(0))
Item3 == LineItem(Str("Gadget"), Int32(3), Num(1005), Num(4000),
                  Int32(2000), Num(570))
ItemNoDescription == [Item1 EXCEPT !.description = Undefined]
ItemNoUnitPrice   == [Item1 EXCEPT !.unitPrice = Undefined]

\* The `data` objects the extraction is taken to return.
DataSet ==
    {BaseData}
    \cup {[BaseData EXCEPT ![f] = Undefined] : f \in RequiredFields}
    \cup {[BaseData EXCEPT !.totalAmount = Num(m)] :
             m \in {-5000, 0, 570, 1005, 1236}}
    \cup {[BaseData EXCEPT !.currency = c] : c \in {Str("EUR"), Str("")}}
    \cup {[BaseData EXCEPT !.issueDate = Str("2024-01-15T00:00:00.000Z"),
                           !.dueDate = Str("2024-01-01T00:00:00.000Z")],
          [BaseData EXCEPT !.issueDate = Str("2024-01-15T00:00:00.000Z"),
                           !.dueDate = Str("2024-01-01T00:00:00.000Z"),
                           !.customerAddress = Str("1 Main St"),
                           !.notes = Str("net 30")],
          [BaseData EXCEPT !.issueDate = Str("2024-01-01T00:00:00.500Z"),
                           !.dueDate = Str("2024-01-01T00:00:00.500Z")],
          [BaseData EXCEPT !.dueDate = Str("next month")]}
    \cup {[BaseData EXCEPT !.lineItems = l] :
             l \in {NoLineItems, Items(<<Item1>>), Items(<<Item1, Item2>>),
                    Items(<<Item3, Item1>>),
                    Items(<<Item1, ItemNoDescription>>),
                    Items(<<ItemNoUnitPrice>>)}}

\* The values the response text decodes to.
JsonSet ==
    {Json(Valid, d) : d \in DataSet}
    \cup {Json(Invalid(e), d) :
             e \in {Errors(<<"Missing total amount">>),
                    Errors(<<"Not an invoice", "Appears to be a receipt">>),
                    Errors(<< >>), NoErrors, NullErrors},
             d \in {NoData}}
    \cup {Json(Invalid(Errors(<<"Missing total amount">>)), d) :
             d \in {BaseData, NullData}}
    \cup {Json(Validation(s, Errors(<<"Needs review">>)), BaseData) :
             s \in {Str("pending"), Str("VALID"), Undefined}}
    \cup {Json(NoValidation, BaseData), Json(Valid, NoData),
          Json(Valid, NullData), JsonNull}

\* ------------------------------------------------------ response text

\* The response text is a sequence of tokens: a code-fence opener with its
\* language tag, a bare fence, a newline, a blank, prose, or the text of one
\* JSON document (v is the value it denotes).
Tok(t)      == [t |-> t, v |-> JsonNull]
JsonText(v) == [t |-> "json", v |-> v]
\* The three backticks followed by the tag json.
FenceJson == Tok("fence-json")
\* The three backticks alone.
Fence     == Tok("fence")
NL        == Tok("\n")
SP        == Tok(" ")
Prose     == Tok("Here is the result:")
\* A JSON document cut short (an unterminated object).
Truncated == Tok("truncated-json")

RECURSIVE RemoveFence(_, _)
\* text.replace(/<fence>\n?/g, empty): every fence token goes, with the newline
\* that directly follows it.
RemoveFence(text, fence) ==
    IF text = << >> THEN << >>
    ELSE IF Head(text) = fence
         THEN IF Len(text) >= 2 /\ text[2] = NL
              THEN RemoveFence(SubSeq(text, 3, Len(text)), fence)
              ELSE RemoveFence(Tail(text), fence)
         ELSE <<Head(text)>> \o RemoveFence(Tail(text), fence)

IsSpace(tok) == tok \in {NL, SP}

RECURSIVE TrimStart(_)
TrimStart(text) ==
    IF text # << >> /\ IsSpace(Head(text)) THEN TrimStart(Tail(text)) ELSE text

RECURSIVE TrimEnd(_)
TrimEnd(text) ==
    IF text # << >> /\ IsSpace(text[Len(text)])
    THEN TrimEnd(SubSeq(text, 1, Len(text) - 1))
    ELSE text

\* String.prototype.trim.
Trim(text) == TrimEnd(TrimStart(text))

\* The fence openers with their tag are removed, then the bare fences, then
\* the text is trimmed (route.ts, cleanedContent).
cleanedContent(content) ==
    Trim(RemoveFence(RemoveFence(content, FenceJson), Fence))

\* A decoder that reads the first document and ignores what follows it.
JSONParse_Lenient(text) ==
    IF Len(text) >= 1 /\ text[1].t = "json"
    THEN [ok |-> TRUE, value |-> text[1].v]
    ELSE [ok |-> FALSE, value |-> JsonNull]

\* JSON.parse: the text must be exactly one JSON document; anything else is
\* a SyntaxError.
JSONParse(text) ==
    IF Len(text) = 1 /\ text[1].t = "json"
    THEN [ok |-> TRUE, value |-> text[1].v]
    ELSE [ok |-> FALSE, value |-> JsonNull]

RECURSIVE JoinParts(_)
\* parts.map(text of the part).join(one blank)
JoinParts(parts) ==
    IF parts = << >> THEN << >>
    ELSE IF Len(parts) = 1 THEN parts[1]
    ELSE parts[1] \o <<SP>> \o JoinParts(Tail(parts))

\* A response message: content is a string (isArray FALSE, one part) or an
\* array of parts.
Message(role, isArray, parts) ==
    [role |-> role, isArray |-> isArray, parts |-> parts]
Assistant(text) == Message("assistant", FALSE, <<text>>)

\* lastMessage.content itself: the string, or the array of parts.
Content(message) == [isArray |-> message.isArray, parts |-> message.parts]

\* The text of a message's content (route.ts, onFinish).
ContentOf(message) ==
    IF message.isArray THEN JoinParts(message.parts) ELSE message.parts[1]

\* sanitizedResponseMessages.find(m => m.role === 'assistant'): the index of
\* the first assistant message, 0 when there is none.
FindAssistant(messages) ==
    IF \E i \in 1..Len(messages) : messages[i].role = "assistant"
    THEN CHOOSE i \in 1..Len(messages) :
            /\ messages[i].role = "assistant"
            /\ \A j \in 1..(i - 1) : messages[j].role # "assistant"
    ELSE 0

Accepted == Json(Valid, BaseData)

\* The sanitized response messages of a request: every decoded value as
\* bare JSON, and the scenario payload wrapped in the ways the model wraps
\* its answer.
ResponseSet ==
    {<<Assistant(<<JsonText(j)>>)>> : j \in JsonSet}
    \cup {<<Assistant(<<FenceJson, NL, JsonText(Accepted), NL, Fence>>)>>,
          <<Assistant(<<Fence, NL, JsonText(Accepted), NL, Fence, NL>>)>>,
          <<Assistant(<<SP, FenceJson, JsonText(Accepted), Fence, SP>>)>>,
          <<Assistant(<<Prose, NL, FenceJson, NL, JsonText(Accepted), NL,
                        Fence>>)>>,
          <<Assistant(<<Prose>>)>>,
          <<Assistant(<<FenceJson, NL, Truncated>>)>>,
          <<Assistant(<<FenceJson, NL, Fence>>)>>,
          <<Message("assistant", TRUE,
                    <<<<FenceJson, NL>>, <<JsonText(Accepted)>>,
                      <<NL, Fence>>>>)>>,
          <<Message("assistant", TRUE,
                    <<<<JsonText(Accepted)>>, <<JsonText(Accepted)>>>>)>>,
          <<Message("tool", TRUE, <<<< >>>>),
            Assistant(<<JsonText(Accepted)>>)>>,
          <<Message("tool", TRUE, <<<< >>>>)>>,
          << >>}

\* ------------------------------------------- what is written to the user

\* A line written to the data stream: fixed text around an interpolated
\* part.
Line(text, arg, tail) == [text |-> text, arg |-> arg, tail |-> tail]

RECURSIVE Join(_, _)
\* Array.prototype.join
Join(xs, sep) ==
    IF xs = << >> THEN << >>
    ELSE IF Len(xs) = 1 THEN xs
    ELSE <<xs[1], sep>> \o Join(Tail(xs), sep)

NoResultLine ==
    Line("0:Failed to find validation results. Please try again.\n", << >>, "")
ParseFailedLine ==
    Line("0:Failed to parse validation results. Please try again.\n", << >>, "")
RejectedLine(errors) ==
    Line("0:Document validation failed. Issues found:\n",
         Join(errors, "\n"), "\n")
SavedLine ==
    Line("0:Invoice data has been successfully validated and saved to the database.\n",
         << >>, "")
SaveFailedLine(errorMessage) ==
    Line("0:Failed to save invoice data to the database. Error: ",
         <<errorMessage>>, ". Please try again or contact support.\n")
\* What onError returns for the timeout error and for any other error.
TimeoutLine ==
    Line("The invoice processing took too long to complete. Please try again with a smaller file or contact support if the issue persists.",
         << >>, "")
GenericErrorLine ==
    Line("An error occurred while processing your invoice. Please ensure the file is a valid invoice document and try again.",
         << >>, "")

\* The message of the Error that saveInvoice throws.
SaveInvoiceError == "Failed to save invoice data"

\* The message of the TypeError raised by reading `prop` of undefined / null.
TypeErrorReading(kind, prop) ==
    CASE kind = "undefined" /\ prop = "status" ->
            "Cannot read properties of undefined (reading 'status')"
      [] kind = "undefined" /\ prop = "issueDate" ->
            "Cannot read properties of undefined (reading 'issueDate')"
      [] kind = "null" /\ prop = "validation" ->
            "Cannot read properties of null (reading 'validation')"
      [] kind = "null" /\ prop = "issueDate" ->
            "Cannot read properties of null (reading 'issueDate')"

\* ------------------------------------------ onFinish, from parse to save

\* parsedResponse.validation.errors || ['Unknown validation error']
ValidationErrors(validation) ==
    IF validation.errors.k = "array"
    THEN validation.errors.items
    ELSE <<"Unknown validation error">>

\* The InvoiceData handed to saveInvoice: the data object with its dates
\* converted and lineItems defaulted to the empty array.
ToInvoiceData(data) ==
    [data EXCEPT !.issueDate = NewDate(data.issueDate),
                 !.dueDate = NewDate(data.dueDate),
                 !.lineItems = IF data.lineItems.k = "array"
                               THEN data.lineItems
                               ELSE Items(<< >>)]

Step(kind, line, raw, data) ==
    [kind |-> kind, line |-> line, raw |-> raw, data |-> data]

\* A gate that lets every status but 'invalid' through.
NotValid_OnlyInvalid(validation) == validation.status = Str("invalid")

\* parsedResponse.validation.status !== 'valid'
NotValid(validation) == validation.status # Str("valid")

\* The invoice branch of onFinish between the saved messages and the call
\* of saveInvoice: what it writes and returns with, or the data it saves.
\*   "noResult"   no assistant message
\*   "parseError" JSON.parse threw; raw is the logged content
\*   "rejected"   validation.status is not 'valid'
\*   "threw"      a TypeError reached the catch around the branch
\*   "save"       saveInvoice is called with data
ProcessResponse(messages) ==
    LET i == FindAssistant(messages) IN
    IF i = 0 THEN Step("noResult", NoResultLine, << >>, NoData)
    ELSE
    LET content == ContentOf(messages[i])
        parsed  == JSONParse(cleanedContent(content))
        p       == parsed.value
    IN  IF ~parsed.ok
        THEN Step("parseError", ParseFailedLine, Content(messages[i]), NoData)
        ELSE IF p.k = "null"
        THEN Step("threw", SaveFailedLine(TypeErrorReading("null", "validation")),
                  << >>, NoData)
        ELSE IF p.validation.k = "undefined"
        THEN Step("threw", SaveFailedLine(TypeErrorReading("undefined", "status")),
                  << >>, NoData)
        ELSE IF NotValid(p.validation)
        THEN Step("rejected", RejectedLine(ValidationErrors(p.validation)),
                  << >>, NoData)
        ELSE IF p.data.k # "object"
        THEN Step("threw", SaveFailedLine(TypeErrorReading(p.data.k, "issueDate")),
                  << >>, NoData)
        ELSE Step("save", SavedLine, << >>, ToInvoiceData(p.data))

\* ------------------------------------------------------------- storage

\* An identifier generateUUID returned: the n-th one of the behaviour.
Uuid(n) == [k |-> "uuid", s |-> "", n |-> n]

\* The value bound for a text column: a string, or NULL.
TextColumn(v) == IF v.k = "string" THEN v ELSE Null

\* The value bound for an integer column: the number, or NULL for undefined,
\* null and NaN.
IntegerColumn(v) == IF v.k \in {"integer", "number"} THEN v ELSE Null

\* integer(..., { mode: 'timestamp' }): a Date is stored as whole seconds;
\* Invalid Date has no time value and binds NULL.
TimestampColumn(d) ==
    IF d.k = "date" THEN Int32(d.n \div 1000) ELSE Null

\* The values saveInvoice inserts into Invoice.
InvoiceValues(invoiceId, createdAt, data) ==
    [id |-> invoiceId,
     createdAt |-> TimestampColumn(createdAt),
     invoiceNumber |-> TextColumn(data.invoiceNumber),
     issueDate |-> TimestampColumn(data.issueDate),
     dueDate |-> TimestampColumn(data.dueDate),
     totalAmount |-> IntegerColumn(toCents(data.totalAmount)),
     currency |-> IF Truthy(data.currency) THEN data.currency ELSE Str("USD"),
     status |-> Str("validated"),
     customerName |-> TextColumn(data.customerName),
     customerAddress |-> TextColumn(data.customerAddress),
     customerContact |-> TextColumn(data.customerContact),
     customerTaxId |-> TextColumn(data.customerTaxId),
     vendorName |-> TextColumn(data.vendorName),
     vendorAddress |-> TextColumn(data.vendorAddress),
     vendorContact |-> TextColumn(data.vendorContact),
     vendorTaxId |-> TextColumn(data.vendorTaxId),
     paymentTerms |-> TextColumn(data.paymentTerms),
     notes |-> TextColumn(data.notes),
     originalFileUrl |-> TextColumn(data.originalFileUrl),
     processingErrors |-> Null]

\* The columns of Invoice declared notNull().
InvoiceNotNull ==
    {"id", "createdAt", "invoiceNumber", "issueDate", "dueDate", "totalAmount",
     "currency", "status", "customerName", "vendorName"}

\* The values saveInvoice inserts into InvoiceLineItem for one item.
LineItemValues(id, invoiceId, item) ==
    [id |-> id,
     invoiceId |-> invoiceId,
     description |-> TextColumn(item.description),
     quantity |-> IntegerColumn(item.quantity),
     unitPrice |-> IntegerColumn(toCents(item.unitPrice)),
     totalPrice |-> IntegerColumn(toCents(item.totalPrice)),
     taxRate |-> IntegerColumn(item.taxRate),
     taxAmount |-> IF Truthy(item.taxAmount)
                   THEN IntegerColumn(toCents(item.taxAmount))
                   ELSE Null,
     sku |-> TextColumn(item.sku),
     category |-> TextColumn(item.category)]

\* The columns of InvoiceLineItem declared notNull().
LineItemNotNull ==
    {"id", "invoiceId", "description", "quantity", "unitPrice", "totalPrice"}

\* A row satisfies the NOT NULL constraints of its table.
SatisfiesNotNull(row, columns) == \A c \in columns : row[c] # Null

\* data.lineItems.map(...): the i-th item gets the i-th identifier after
\* `firstId`.
LineItemRows(firstId, invoiceId, items) ==
    [i \in 1..Len(items) |->
        LineItemValues(Uuid(firstId + i - 1), invoiceId, items[i])]

\* The rows of one multi-row INSERT: the statement inserts all of them or,
\* when a row breaks a constraint, none.
InsertAccepts(rows, columns) ==
    \A i \in 1..Len(rows) : SatisfiesNotNull(rows[i], columns)

\* A foreign key that is declared and not enforced.
ForeignKey_Unenforced(lineItems, invoices) == TRUE

\* FOREIGN KEY (invoiceId) REFERENCES Invoice(id) ON UPDATE no action ON
\* DELETE no action: every line item refers to an invoice.  A statement
\* that would leave the tables otherwise is refused.
ForeignKey(lineItems, invoices) ==
    \A i \in DOMAIN lineItems :
        \E j \in DOMAIN invoices : invoices[j].id = lineItems[i].invoiceId

\* An insert that replaces the rows of the same invoiceNumber.
InsertedInvoice_Upsert(table, row) ==
    Append(SelectSeq(table, LAMBDA old : old.invoiceNumber # row.invoiceNumber),
           row)

\* db.insert(invoice).values(row): the table with the row added.
InsertedInvoice(table, row) == Append(table, row)

\* ------------------------------------------------------------ the route

\* const timeoutMs = 30000
timeoutMs == 30000

\* One tick of the wall clock, in milliseconds.
TickMs == timeoutMs \div 3

\* The words of the user messages, with their lower-case form.
LowerCase ==
    [w \in {"process", "Process", "PROCESS", "this", "THIS", "invoice",
            "Invoice", "the", "please", "hello"} |->
        CASE w \in {"process", "Process", "PROCESS"} -> "process"
          [] w \in {"this", "THIS"} -> "this"
          [] w \in {"invoice", "Invoice"} -> "invoice"
          [] OTHER -> w]

\* content.toLowerCase()
toLowerCase(words) == [i \in 1..Len(words) |-> LowerCase[words[i]]]

\* String.prototype.includes, on words.
includes(words, phrase) ==
    \E i \in 0..(Len(words) - Len(phrase)) :
        \A j \in 1..Len(phrase) : words[i + j] = phrase[j]

\* The content of the most recent user message.
UserMessages ==
    {<<"process", "this", "invoice">>,
     <<"please", "PROCESS", "THIS", "Invoice">>,
     <<"process", "the", "invoice">>}

VARIABLES
    invoiceTable,        \* the rows of Invoice, in insertion order
    lineItemTable,       \* the rows of InvoiceLineItem, in insertion order
    nextId,              \* how many identifiers generateUUID has returned
    now,                 \* the wall clock, in ticks
    requests,            \* how many POST requests have been received
    isInvoiceProcessing, \* the current request carries the trigger phrase
    timer,               \* the setTimeout of the current request
    race,                \* how Promise.race of the current request settled
    onFinish,            \* where the onFinish callback of the request is
    response,            \* the sanitized response messages onFinish received
    invoiceId,           \* saveInvoice's invoiceId
    dataStream,          \* the outcome lines written for the current request
    console,             \* console.error records of the current request
    saveCalls,           \* how often the request has called saveInvoice
    tablesAtStart,       \* both tables as the request found them
    faulted,             \* the storage failed under an insert of the request
    calls,               \* the saveInvoice call of each direct caller
    returned,            \* what the last direct call of a query returned
    saves,               \* how many direct saveInvoice calls were made
    updates,             \* how many direct updateInvoiceStatus calls were made
    amount,              \* a decimal amount
    minorUnits,          \* the amount in minor units, once converted
    decimal,             \* the minor units as a decimal, once converted back
    input,               \* the text of the chat input, in words
    attachments,         \* the attachments of the chat input
    chatMessages,        \* the messages the component added to the chat
    invoiceProcessingStatus, \* the status shown while an invoice is processed
    awaited,             \* the handleSubmit calls handleInvoiceProcessing awaits
    fetches,             \* the requests useChat made to the chat API
    submits              \* how often the form was submitted

vars == <<invoiceTable, lineItemTable, nextId, now, requests,
          isInvoiceProcessing, timer, race, onFinish, response, invoiceId,
          dataStream, console, saveCalls, tablesAtStart, faulted,
          calls, returned, saves, updates, amount, minorUnits, decimal,
          input, attachments, chatMessages, invoiceProcessingStatus, awaited,
          fetches, submits>>

storage == <<invoiceTable, lineItemTable, nextId>>
request == <<requests, isInvoiceProcessing, tablesAtStart>>
saving  == <<invoiceId, saveCalls, faulted>>
\* The state of the calls made on the queries directly, outside a request.
direct  == <<calls, returned, saves, updates>>
money   == <<amount, minorUnits, decimal>>
\* The state of the chat component in the browser.
client  == <<input, attachments, chatMessages, invoiceProcessingStatus,
             awaited, fetches, submits>>

\* A console.error record: the label and the logged content.
Logged(label, raw) == [label |-> label, raw |-> raw]

\* The requests that call the queries at the same time.
Callers == {"a", "b"}

\* A saveInvoice call of a direct caller: where it is, the data it was
\* given and its invoiceId.
Call(pc, data, id) == [pc |-> pc, data |-> data, invoiceId |-> id]
NoCall == Call("idle", NoData, Uuid(0))

\* What a direct call of a query came back with: the rows it returned, or
\* the message of the Error it threw.
Returned(op, id, threw, rows) ==
    [op |-> op, id |-> id, threw |-> threw, rows |-> rows]
NothingReturned == Returned("none", Uuid(0), "", << >>)

\* Empty tables, no request received, no query called, no amount converted.
AtRest ==
    /\ invoiceTable = << >>
    /\ lineItemTable = << >>
    /\ nextId = 0
    /\ now = 0
    /\ requests = 0
    /\ isInvoiceProcessing = FALSE
    /\ timer = [state |-> "none", due |-> 0]
    /\ race = "none"
    /\ onFinish = "none"
    /\ response = << >>
    /\ invoiceId = Uuid(0)
    /\ dataStream = << >>
    /\ console = << >>
    /\ saveCalls = 0
    /\ tablesAtStart = [invoice |-> << >>, lineItem |-> << >>]
    /\ faulted = FALSE
    /\ calls = [c \in Callers |-> NoCall]
    /\ returned = NothingReturned
    /\ saves = 0
    /\ updates = 0
    /\ minorUnits = Undefined
    /\ decimal = Undefined
    /\ input = << >>
    /\ attachments = << >>
    /\ chatMessages = << >>
    /\ invoiceProcessingStatus = Undefined
    /\ awaited = << >>
    /\ fetches = << >>
    /\ submits = 0

Init == AtRest /\ amount = Num(0)

\* No callback of the current request is still to run.
Settled == onFinish \in {"none", "done", "never"} /\ race # "pending"

\* POST: the user message is saved, the timer is set and the stream started.
POST(content) ==
    /\ requests < MaxRequests
    /\ Settled
    /\ requests' = requests + 1
    /\ isInvoiceProcessing' =
          includes(toLowerCase(content), <<"process", "this", "invoice">>)
    /\ timer' = [state |-> "armed", due |-> now * TickMs + timeoutMs]
    /\ race' = "pending"
    /\ onFinish' = "pending"
    /\ response' = << >>
    /\ dataStream' = << >>
    /\ console' = << >>
    /\ saveCalls' = 0
    /\ tablesAtStart' = [invoice |-> invoiceTable, lineItem |-> lineItemTable]
    /\ invoiceId' = Uuid(0)
    /\ faulted' = FALSE
    /\ UNCHANGED <<storage, now, direct, money, client>>

\* The wall clock advances; a timer that is due fires before it advances
\* further.
Tick ==
    /\ now < MaxTime
    /\ timer.state = "armed" => now * TickMs < timer.due
    /\ now' = now + 1
    /\ UNCHANGED <<storage, request, timer, race, onFinish, response,
                   saving, dataStream, console, direct, money, client>>

\* No rejection is on its way to a catch: the callbacks of timers and of
\* the stream run between tasks, never between a throw of saveInvoice and
\* the catch of the invoice branch.
BetweenTasks == onFinish # "saveInvoiceThrew"

\* What the catch of execute and onError log for the timeout error.
TimeoutLogs ==
    <<Logged("Processing timeout occurred", << >>),
      Logged("Error in chat stream:", << >>)>>

\* A timer whose firing aborts the extraction: onFinish is never called.
TimerFires_Aborting ==
    /\ BetweenTasks
    /\ timer.state = "armed"
    /\ now * TickMs >= timer.due
    /\ timer' = [timer EXCEPT !.state = "fired"]
    /\ IF race = "pending"
       THEN /\ race' = "timeout"
            /\ onFinish' = IF onFinish = "pending" THEN "never" ELSE onFinish
            /\ dataStream' = Append(dataStream, TimeoutLine)
            /\ console' = console \o TimeoutLogs
       ELSE UNCHANGED <<race, onFinish, dataStream, console>>
    /\ UNCHANGED <<storage, request, now, response, saving, direct, money, client>>

\* A timer whose firing is reported whether or not the race is settled.
TimerFires_Unraced ==
    /\ BetweenTasks
    /\ timer.state = "armed"
    /\ now * TickMs >= timer.due
    /\ timer' = [timer EXCEPT !.state = "fired"]
    /\ race' = IF race = "pending" THEN "timeout" ELSE race
    /\ dataStream' = Append(dataStream, TimeoutLine)
    /\ console' = console \o TimeoutLogs
    /\ UNCHANGED <<storage, request, now, onFinish, response, saving,
                   direct, money, client>>

\* The setTimeout callback rejects timeoutPromise.  When the race is still
\* open, execute's catch logs and rethrows the timeout error, onError logs
\* it and its text for it is sent; when the race is settled, nothing
\* observes the rejection.
TimerFires ==
    /\ BetweenTasks
    /\ timer.state = "armed"
    /\ now * TickMs >= timer.due
    /\ timer' = [timer EXCEPT !.state = "fired"]
    /\ IF race = "pending"
       THEN /\ race' = "timeout"
            /\ dataStream' = Append(dataStream, TimeoutLine)
            /\ console' = console \o TimeoutLogs
       ELSE UNCHANGED <<race, dataStream, console>>
    /\ UNCHANGED <<storage, request, now, onFinish, response, saving,
                   direct, money, client>>

\* mergeIntoDataStream settles before the timer: the race is won by the
\* stream.
StreamSettles ==
    /\ BetweenTasks
    /\ race = "pending"
    /\ race' = "stream"
    /\ UNCHANGED <<storage, request, now, timer, onFinish, response,
                   saving, dataStream, console, direct, money, client>>

\* The extraction fails before it finishes: execute throws an error other
\* than the timeout, onFinish is never called, onError logs the error and
\* its generic text is sent.
StreamFails ==
    /\ race = "pending"
    /\ onFinish = "pending"
    /\ race' = "error"
    /\ onFinish' = "never"
    /\ dataStream' = Append(dataStream, GenericErrorLine)
    /\ console' = Append(console, Logged("Error in chat stream:", << >>))
    /\ UNCHANGED <<storage, request, now, timer, response, saving,
                   direct, money, client>>

\* The current time as new Date() gives it.
NewDateNow == DateOf(now * TickMs)

\* The data of the request in flight, as onFinish handed it to saveInvoice.
InvoiceData == ProcessResponse(response).data

\* onFinish is called with the response: it sanitizes the messages and
\* awaits saveMessages.
OnFinishCalled(messages) ==
    /\ onFinish = "pending"
    /\ onFinish' = "saveMessages"
    /\ response' = messages
    /\ UNCHANGED <<storage, request, now, timer, race, saving, dataStream,
                   console, direct, money, client>>

\* onFinish writes `line` and returns.
Finish(line) ==
    /\ onFinish' = "done"
    /\ dataStream' = Append(dataStream, line)

\* A catch that starts the invoice branch over instead of reporting.
SaveInvoiceThrows_Retried ==
    /\ onFinish' = "saveMessages"
    /\ console' = Append(console, Logged("Failed to save invoice:", << >>))
    /\ UNCHANGED dataStream

\* saveInvoice's catch: the error is logged and 'Failed to save invoice
\* data' is thrown in its place, which rejects the promise onFinish awaits.
SaveInvoiceThrows ==
    /\ onFinish' = "saveInvoiceThrew"
    /\ console' = Append(console, Logged("Failed to save invoice:", << >>))
    /\ UNCHANGED dataStream

\* What the catch of the invoice branch logs for an Error of that message.
CaughtLogs(errorMessage) ==
    <<Logged("Failed to save invoice data:", << >>),
      Logged("Error details:", <<errorMessage>>),
      Logged("Error stack:", << >>)>>

\* onFinish resumes with the rejection of saveInvoice: the catch of the
\* invoice branch logs the error and writes its message to the stream.
SaveInvoiceCaught ==
    /\ onFinish = "saveInvoiceThrew"
    /\ Finish(SaveFailedLine(SaveInvoiceError))
    /\ console' = console \o CaughtLogs(SaveInvoiceError)
    /\ UNCHANGED <<storage, request, now, timer, race, response, saving,
                   direct, money, client>>

\* db.insert(invoice).values(...).returning() succeeds: the storage works
\* (`fault` is a failure of it) and the row satisfies the constraints.
InsertInvoice(row, fault) ==
    ~fault /\ SatisfiesNotNull(row, InvoiceNotNull)

\* An insert that refuses a row whose totalPrice is not quantity times
\* unitPrice.
InsertLineItems_Checked(rows, fault) ==
    /\ ~fault
    /\ InsertAccepts(rows, LineItemNotNull)
    /\ ForeignKey(lineItemTable \o rows, invoiceTable)
    /\ \A i \in DOMAIN rows :
          rows[i].totalPrice.n = rows[i].quantity.n * rows[i].unitPrice.n

\* db.insert(invoiceLineItem).values([...]) succeeds: one statement, which
\* inserts all the rows or none.
InsertLineItems(rows, fault) ==
    /\ ~fault
    /\ InsertAccepts(rows, LineItemNotNull)
    /\ ForeignKey(lineItemTable \o rows, invoiceTable)

\* saveInvoice(data) up to its first await: the identifier is generated
\* and the Invoice row inserted.
SaveInvoiceBegins(data, fault) ==
    /\ saveCalls' = saveCalls + 1
    /\ invoiceId' = Uuid(nextId)
    /\ faulted' = fault
    /\ nextId' = nextId + 1
    /\ UNCHANGED lineItemTable
    /\ IF InsertInvoice(InvoiceValues(Uuid(nextId), NewDateNow, data), fault)
       THEN /\ invoiceTable' =
                  InsertedInvoice(invoiceTable,
                                  InvoiceValues(Uuid(nextId), NewDateNow, data))
            /\ onFinish' = "invoiceInserted"
            /\ UNCHANGED <<dataStream, console>>
       ELSE /\ UNCHANGED invoiceTable
            /\ SaveInvoiceThrows

\* An onFinish that goes on to the response whether or not the messages
\* were saved, and reports what it finds.
SaveMessagesSettles_Regardless(saved, fault) ==
    /\ onFinish = "saveMessages"
    /\ Finish(ProcessResponse(response).line)
    /\ console' = IF saved
                  THEN console
                  ELSE Append(console, Logged("Failed to save chat:", << >>))
    /\ UNCHANGED <<storage, saving, request, now, timer, race, response,
                   direct, money, client>>

\* saveMessages settles.  When it failed, the outer catch logs and onFinish
\* returns.  Otherwise, for an invoice request, the response is parsed and
\* checked, and saveInvoice is called for a response declared valid.
SaveMessagesSettles(saved, fault) ==
    /\ onFinish = "saveMessages"
    /\ UNCHANGED <<request, now, timer, race, response, direct, money, client>>
    /\ IF ~saved
       THEN /\ onFinish' = "done"
            /\ console' = Append(console, Logged("Failed to save chat:", << >>))
            /\ UNCHANGED <<storage, saving, dataStream>>
       ELSE IF ~isInvoiceProcessing
       THEN /\ onFinish' = "done"
            /\ UNCHANGED <<storage, saving, dataStream, console>>
       ELSE LET step == ProcessResponse(response) IN
            CASE step.kind = "save" -> SaveInvoiceBegins(step.data, fault)
              [] step.kind = "noResult" ->
                    /\ Finish(step.line)
                    /\ console' = Append(console,
                          Logged("No assistant message found in sanitized messages",
                                 << >>))
                    /\ UNCHANGED <<storage, saving>>
              [] step.kind = "parseError" ->
                    /\ Finish(step.line)
                    /\ console' = console
                          \o <<Logged("Failed to parse structured output:", << >>),
                               Logged("Raw content:", step.raw)>>
                    /\ UNCHANGED <<storage, saving>>
              [] step.kind = "rejected" ->
                    /\ Finish(step.line)
                    /\ console' = Append(console,
                          Logged("Document validation failed:", << >>))
                    /\ UNCHANGED <<storage, saving>>
              [] step.kind = "threw" ->
                    /\ Finish(step.line)
                    /\ console' = console \o CaughtLogs(step.line.arg[1])
                    /\ UNCHANGED <<storage, saving>>

\* saveInvoice resumes after the Invoice insert: the line items, when there
\* are any, are inserted in one statement; with none, saveInvoice returns
\* and onFinish writes the success line.
InvoiceInsertReturns(fault) ==
    /\ onFinish = "invoiceInserted"
    /\ UNCHANGED <<request, now, timer, race, response, invoiceId, saveCalls,
                   invoiceTable, direct, money, client>>
    /\ LET items == InvoiceData.lineItems.items IN
       IF Len(items) > 0
       THEN /\ nextId' = nextId + Len(items)
            /\ faulted' = (faulted \/ fault)
            /\ IF InsertLineItems(LineItemRows(nextId, invoiceId, items), fault)
               THEN /\ lineItemTable' =
                          lineItemTable \o LineItemRows(nextId, invoiceId, items)
                    /\ onFinish' = "lineItemsInserted"
                    /\ UNCHANGED <<dataStream, console>>
               ELSE /\ UNCHANGED lineItemTable
                    /\ SaveInvoiceThrows
       ELSE /\ Finish(SavedLine)
            /\ UNCHANGED <<nextId, lineItemTable, console, faulted>>

\* saveInvoice resumes after the line-item insert and returns the saved
\* invoice; onFinish writes the success line.
LineItemInsertReturns ==
    /\ onFinish = "lineItemsInserted"
    /\ Finish(SavedLine)
    /\ UNCHANGED <<storage, request, now, timer, race, response, saving,
                   console, direct, money, client>>

Next ==
    \/ \E content \in UserMessages : POST(content)
    \/ Tick
    \/ TimerFires
    \/ StreamSettles
    \/ StreamFails
    \/ \E messages \in ResponseSet : OnFinishCalled(messages)
    \/ \E saved \in BOOLEAN, fault \in BOOLEAN : SaveMessagesSettles(saved, fault)
    \/ \E fault \in BOOLEAN : InvoiceInsertReturns(fault)
    \/ LineItemInsertReturns
    \/ SaveInvoiceCaught

Spec == Init /\ [][Next]_vars

\* ------------------------------------------- the queries, called directly

\* The variables of the route, which a direct call leaves alone.
route == <<requests, isInvoiceProcessing, timer, race, onFinish, response,
           invoiceId, dataStream, console, saveCalls, tablesAtStart, faulted>>

\* The InvoiceData saveInvoice is called with.
StorageData ==
    {ToInvoiceData(d) : d \in
        {BaseData,
         [BaseData EXCEPT !.currency = Str("EUR"),
                          !.issueDate = Str("2024-01-01T00:00:00.500Z"),
                          !.dueDate = Str("2024-01-01T00:00:00.500Z")],
         [BaseData EXCEPT !.lineItems = Items(<<Item1, Item2>>)]}}

\* status: 'pending' | 'validated' | 'invalid' | 'processed'
Statuses == {"pending", "validated", "invalid", "processed"}

\* The errors argument of updateInvoiceStatus: left out, empty, or a list.
ErrorArgs == {NoErrors, Errors(<< >>), Errors(<<"Total mismatch">>)}

\* The identifiers a query is called with: those of the stored invoices,
\* and the next one to be generated, which no row has.
Ids == {invoiceTable[i].id : i \in DOMAIN invoiceTable} \cup {Uuid(nextId)}

\* JSON.stringify(errors): the text of the list.
JSONStringify(errors) ==
    [k |-> "json", s |-> "", n |-> 0, items |-> errors.items]

\* const [result] = await db.select().from(invoice).where(eq(invoice.id, id)):
\* the first row of that id, as a sequence of one row, or the empty sequence
\* for undefined.
getInvoiceById(id) ==
    LET result == SelectSeq(invoiceTable, LAMBDA row : row.id = id)
    IN  IF result = << >> THEN << >> ELSE <<result[1]>>

\* A read that returns the rows of that invoiceId last row first.
getInvoiceLineItems_Reversed(id) ==
    LET rows == SelectSeq(lineItemTable, LAMBDA row : row.invoiceId = id)
    IN  [i \in 1..Len(rows) |-> rows[Len(rows) + 1 - i]]

\* db.select().from(invoiceLineItem).where(eq(invoiceLineItem.invoiceId,
\* invoiceId)): the rows of that invoiceId, as the table holds them.
getInvoiceLineItems(id) ==
    SelectSeq(lineItemTable, LAMBDA row : row.invoiceId = id)

\* An update without its where clause: every row gets both values.
StatusSet_Everywhere(table, id, status, errors) ==
    [i \in DOMAIN table |->
        [table[i] EXCEPT
            !.status = Str(status),
            !.processingErrors = IF errors.k = "array"
                                 THEN [k |-> "json", s |-> "", n |-> 0,
                                       items |-> errors.items]
                                 ELSE Null]]

\* .set({ status, processingErrors: errors ? JSON.stringify(errors) : null })
\* .where(eq(invoice.id, id)): every row of that id gets both values.
StatusSet(table, id, status, errors) ==
    [i \in DOMAIN table |->
        IF table[i].id = id
        THEN [table[i] EXCEPT
                 !.status = Str(status),
                 !.processingErrors = IF errors.k = "array"
                                      THEN JSONStringify(errors)
                                      ELSE Null]
        ELSE table[i]]

\* saveInvoice(data) is called by `c` and runs up to its first await: the
\* identifier is generated and the Invoice row inserted.
SaveInvoiceCalled(c, data, fault) ==
    /\ saves < MaxSaves
    /\ calls[c].pc \in {"idle", "returned", "threw"}
    /\ saves' = saves + 1
    /\ nextId' = nextId + 1
    /\ LET row == InvoiceValues(Uuid(nextId), NewDateNow, data) IN
       IF InsertInvoice(row, fault)
       THEN /\ invoiceTable' = InsertedInvoice(invoiceTable, row)
            /\ calls' = [calls EXCEPT
                            ![c] = Call("invoiceInserted", data, Uuid(nextId))]
       ELSE /\ UNCHANGED invoiceTable
            /\ calls' = [calls EXCEPT ![c] = Call("threw", data, Uuid(nextId))]
    /\ UNCHANGED <<lineItemTable, now, returned, updates, route, money, client>>

\* The call of `c` resumes after the Invoice insert: the line items, when
\* there are any, are inserted in one statement; with none, it returns.
SaveInvoiceResumes(c, fault) ==
    /\ calls[c].pc = "invoiceInserted"
    /\ LET items == calls[c].data.lineItems.items
           rows  == LineItemRows(nextId, calls[c].invoiceId, items)
       IN  IF Len(items) > 0
           THEN /\ nextId' = nextId + Len(items)
                /\ IF InsertLineItems(rows, fault)
                   THEN /\ lineItemTable' = lineItemTable \o rows
                        /\ calls' = [calls EXCEPT ![c].pc = "lineItemsInserted"]
                   ELSE /\ UNCHANGED lineItemTable
                        /\ calls' = [calls EXCEPT ![c].pc = "threw"]
           ELSE /\ calls' = [calls EXCEPT ![c].pc = "returned"]
                /\ UNCHANGED <<nextId, lineItemTable>>
    /\ UNCHANGED <<invoiceTable, now, returned, saves, updates, route, money, client>>

\* The call of `c` resumes after the line-item insert and returns the saved
\* invoice.
SaveInvoiceReturns(c) ==
    /\ calls[c].pc = "lineItemsInserted"
    /\ calls' = [calls EXCEPT ![c].pc = "returned"]
    /\ UNCHANGED <<storage, now, returned, saves, updates, route, money, client>>

\* getInvoiceById(id) is called and returns, or throws what its catch
\* makes of a failure of the storage.
GetInvoiceById(id, fault) ==
    /\ returned' = IF fault
                   THEN Returned("getInvoiceById", id,
                                 "Failed to retrieve invoice data", << >>)
                   ELSE Returned("getInvoiceById", id, "", getInvoiceById(id))
    /\ UNCHANGED <<storage, now, calls, saves, updates, route, money, client>>

\* getInvoiceLineItems(invoiceId) is called and returns, or throws.
GetInvoiceLineItems(id, fault) ==
    /\ returned' = IF fault
                   THEN Returned("getInvoiceLineItems", id,
                                 "Failed to retrieve invoice line items", << >>)
                   ELSE Returned("getInvoiceLineItems", id, "",
                                 getInvoiceLineItems(id))
    /\ UNCHANGED <<storage, now, calls, saves, updates, route, money, client>>

\* updateInvoiceStatus(id, status, errors) is called and returns, or throws
\* what its catch makes of a failure of the storage.
UpdateInvoiceStatus(id, status, errors, fault) ==
    /\ updates < MaxUpdates
    /\ updates' = updates + 1
    /\ IF fault
       THEN /\ returned' = Returned("updateInvoiceStatus", id,
                                    "Failed to update invoice status", << >>)
            /\ UNCHANGED invoiceTable
       ELSE /\ returned' = Returned("updateInvoiceStatus", id, "", << >>)
            /\ invoiceTable' = StatusSet(invoiceTable, id, status, errors)
    /\ UNCHANGED <<lineItemTable, nextId, now, calls, saves, route, money, client>>

\* deleteInvoice(id): the Invoice row of that id is removed, unless the
\* foreign key of InvoiceLineItem refuses the statement.
DeleteInvoice(id) ==
    /\ LET remaining == SelectSeq(invoiceTable, LAMBDA row : row.id # id) IN
       IF ForeignKey(lineItemTable, remaining)
       THEN /\ returned' = Returned("deleteInvoice", id, "", << >>)
            /\ invoiceTable' = remaining
       ELSE /\ returned' = Returned("deleteInvoice", id,
                                    "FOREIGN KEY constraint failed", << >>)
            /\ UNCHANGED invoiceTable
    /\ UNCHANGED <<lineItemTable, nextId, now, calls, saves, updates, route,
                   money, client>>

StorageNext ==
    \/ \E c \in Callers, data \in StorageData, fault \in BOOLEAN :
          SaveInvoiceCalled(c, data, fault)
    \/ \E c \in Callers, fault \in BOOLEAN : SaveInvoiceResumes(c, fault)
    \/ \E c \in Callers : SaveInvoiceReturns(c)
    \/ \E id \in Ids, fault \in BOOLEAN : GetInvoiceById(id, fault)
    \/ \E id \in Ids, fault \in BOOLEAN : GetInvoiceLineItems(id, fault)
    \/ \E id \in Ids : DeleteInvoice(id)

\* Two requests save at the same time while invoices are read and removed.
StorageSpec == Init /\ [][StorageNext]_vars

StatusNext ==
    \/ \E data \in StorageData, fault \in BOOLEAN :
          SaveInvoiceCalled("a", data, fault)
    \/ \E fault \in BOOLEAN : SaveInvoiceResumes("a", fault)
    \/ SaveInvoiceReturns("a")
    \/ \E id \in Ids, status \in Statuses, errors \in ErrorArgs,
          fault \in BOOLEAN : UpdateInvoiceStatus(id, status, errors, fault)

\* Invoices are saved one after the other and their status is updated.
StatusSpec == Init /\ [][StatusNext]_vars

\* Two invoices have been saved, the second with two line items; no call
\* is under way.
FrameInit ==
    /\ invoiceTable =
          <<InvoiceValues(Uuid(0), DateOf(0), ToInvoiceData(BaseData)),
            InvoiceValues(Uuid(1), DateOf(0),
                ToInvoiceData([BaseData EXCEPT
                                  !.lineItems = Items(<<Item1, Item2>>)]))>>
    /\ lineItemTable = LineItemRows(2, Uuid(1), <<Item1, Item2>>)
    /\ nextId = 4
    /\ now = 0
    /\ requests = 0
    /\ isInvoiceProcessing = FALSE
    /\ timer = [state |-> "none", due |-> 0]
    /\ race = "none"
    /\ onFinish = "none"
    /\ response = << >>
    /\ invoiceId = Uuid(0)
    /\ dataStream = << >>
    /\ console = << >>
    /\ saveCalls = 0
    /\ tablesAtStart = [invoice |-> << >>, lineItem |-> << >>]
    /\ faulted = FALSE
    /\ calls = [c \in Callers |-> NoCall]
    /\ returned = NothingReturned
    /\ saves = 0
    /\ updates = 0
    /\ amount = Num(0)
    /\ minorUnits = Undefined
    /\ decimal = Undefined
    /\ input = << >>
    /\ attachments = << >>
    /\ chatMessages = << >>
    /\ invoiceProcessingStatus = Undefined
    /\ awaited = << >>
    /\ fetches = << >>
    /\ submits = 0

FrameNext ==
    \/ \E id \in Ids, status \in Statuses, errors \in ErrorArgs,
          fault \in BOOLEAN : UpdateInvoiceStatus(id, status, errors, fault)
    \/ \E id \in Ids, fault \in BOOLEAN : GetInvoiceById(id, fault)
    \/ \E id \in Ids, fault \in BOOLEAN : GetInvoiceLineItems(id, fault)

\* The status of saved invoices is updated and they are read.
FrameSpec == FrameInit /\ [][FrameNext]_vars

\* ------------------------------------------------- amounts in minor units

\* toDecimal(minorUnits): the minor units divided by 100.
toDecimal(v) == IF v.k = "integer" THEN Num(v.n * 10) ELSE NaN

\* An amount of up to three fractional digits is taken.
MoneyInit == AtRest /\ amount \in {Num(m) : m \in 0..MaxAmount}

\* The amount is converted as saveInvoice converts totalAmount.
ToMinorUnits ==
    /\ minorUnits = Undefined
    /\ minorUnits' = toCents(amount)
    /\ UNCHANGED <<storage, now, route, direct, amount, decimal, client>>

\* The minor units are converted back.
ToDecimal ==
    /\ minorUnits # Undefined
    /\ decimal = Undefined
    /\ decimal' = toDecimal(minorUnits)
    /\ UNCHANGED <<storage, now, route, direct, amount, minorUnits, client>>

MoneyNext == ToMinorUnits \/ ToDecimal

MoneySpec == MoneyInit /\ [][MoneyNext]_vars

\* ---------------------------------------------------- the chat component

\* How often the form is submitted.
MaxSubmits == 1

\* The texts the user types into the chat input.
Inputs ==
    {<<"process", "this", "invoice">>,
     <<"please", "PROCESS", "THIS", "Invoice">>,
     <<"hello">>}

\* An attachment of the chat input, of which the handlers read the
\* content type.
Attachment(contentType) == [contentType |-> contentType]

\* The attachments lists the user puts together.
AttachmentLists ==
    {<< >>,
     <<Attachment(Str("application/pdf"))>>,
     <<Attachment(Str("image/png")), Attachment(Str("text/plain"))>>,
     <<Attachment(Str("text/plain")), Attachment(Str("application/pdf"))>>,
     <<Attachment(Undefined)>>}

\* invoiceFile.contentType || ''
ContentType(invoiceFile) ==
    IF Truthy(invoiceFile.contentType) THEN invoiceFile.contentType.s ELSE ""

\* ['application/pdf', 'image/jpeg', 'image/png']
InvoiceFileTypes == {"application/pdf", "image/jpeg", "image/png"}

\* A message of the chat: its role and its content, in words (a notice of
\* the component is kept whole).
ChatMessage(role, content) == [role |-> role, content |-> content]
AttachFirstNotice ==
    ChatMessage("assistant", <<"Please attach an invoice file first.">>)
InvalidFileNotice ==
    ChatMessage("assistant",
                <<"Please attach a valid invoice file (PDF, JPEG, or PNG).">>)
FailedNotice ==
    ChatMessage("assistant",
                <<"Failed to process invoice. Please try again.">>)

\* A request of useChat to the chat API: who made it, the last of the
\* messages it posts, the attachments sent along, and whether a callback
\* has settled it.
Fetch(via, message, files) ==
    [via |-> via, message |-> message, files |-> files, state |-> "inFlight"]

\* A handleSubmit call under way: the input and the attachments it was
\* called with.
Submission(content, files) == [content |-> content, files |-> files]

\* setInput(text): the user types.
SetInput(text) ==
    /\ input' = text
    /\ UNCHANGED <<storage, now, route, direct, money, attachments,
                   chatMessages, invoiceProcessingStatus, awaited, fetches,
                   submits>>

\* setAttachments(list): the user attaches or removes files.
SetAttachments(list) ==
    /\ attachments' = list
    /\ UNCHANGED <<storage, now, route, direct, money, input, chatMessages,
                   invoiceProcessingStatus, awaited, fetches, submits>>

\* useChat's append(message): the message joins the messages of the chat
\* and the chat is posted to the chat API.
append(message) ==
    /\ chatMessages' = Append(chatMessages, message)
    /\ fetches' = Append(fetches, Fetch("append", message, << >>))

\* useChat's handleSubmit(event, { experimental_attachments }) has made its
\* request: the input joins the messages as a user message, the chat is
\* posted with the attachments, and the input is emptied.
handleSubmit(via, content, files) ==
    /\ chatMessages' = Append(chatMessages, ChatMessage("user", content))
    /\ fetches' =
          Append(fetches, Fetch(via, ChatMessage("user", content), files))
    /\ input' = << >>

\* handleInvoiceProcessing up to its await: a notice where no attachment
\* or none of an invoice file type comes first, else the status is set and
\* handleSubmit is called with the attachments.
handleInvoiceProcessing ==
    IF Len(attachments) = 0
    THEN /\ append(AttachFirstNotice)
         /\ UNCHANGED <<input, invoiceProcessingStatus, awaited>>
    ELSE IF ContentType(attachments[1]) \notin InvoiceFileTypes
    THEN /\ append(InvalidFileNotice)
         /\ UNCHANGED <<input, invoiceProcessingStatus, awaited>>
    ELSE /\ invoiceProcessingStatus' = Str("Processing invoice...")
         /\ awaited' = Append(awaited, Submission(input, attachments))
         /\ UNCHANGED <<input, chatMessages, fetches>>

\* handleFormSubmit: the form is submitted with the input as it is.
HandleFormSubmit ==
    /\ submits < MaxSubmits
    /\ input # << >>
    /\ submits' = submits + 1
    /\ IF includes(toLowerCase(input), <<"process", "this", "invoice">>)
       THEN handleInvoiceProcessing
       ELSE /\ handleSubmit("handleFormSubmit", input, << >>)
            /\ UNCHANGED <<invoiceProcessingStatus, awaited>>
    /\ UNCHANGED <<storage, now, route, direct, money, attachments>>

\* The i-th awaited call leaves the sequence.
Resumed(i) == [j \in 1..(Len(awaited) - 1) |->
                  IF j < i THEN awaited[j] ELSE awaited[j + 1]]

\* The handleSubmit call handleInvoiceProcessing awaits has made its
\* request and resolves.
HandleSubmitResolves(i) ==
    /\ i \in DOMAIN awaited
    /\ handleSubmit("handleInvoiceProcessing", awaited[i].content,
                    awaited[i].files)
    /\ awaited' = Resumed(i)
    /\ UNCHANGED <<storage, now, route, direct, money, attachments,
                   invoiceProcessingStatus, submits>>

\* The awaited handleSubmit call throws: the catch appends its notice and
\* clears the status.
HandleSubmitThrows(i) ==
    /\ i \in DOMAIN awaited
    /\ append(FailedNotice)
    /\ invoiceProcessingStatus' = Undefined
    /\ awaited' = Resumed(i)
    /\ UNCHANGED <<storage, now, route, direct, money, input, attachments,
                   submits>>

\* A request has ended: finished, errored or aborted.
SettledFetch(i, state) == [fetches EXCEPT ![i].state = state]

\* The response of a request has arrived and useChat calls onFinish.
ChatOnFinish(i) ==
    /\ i \in DOMAIN fetches
    /\ fetches[i].state = "inFlight"
    /\ fetches' = SettledFetch(i, "finished")
    /\ invoiceProcessingStatus' = Undefined
    /\ UNCHANGED <<storage, now, route, direct, money, input, attachments,
                   chatMessages, awaited, submits>>

\* A request ends in an error and useChat calls onError.
ChatOnError(i) ==
    /\ i \in DOMAIN fetches
    /\ fetches[i].state = "inFlight"
    /\ fetches' = SettledFetch(i, "errored")
    /\ invoiceProcessingStatus' = Undefined
    /\ UNCHANGED <<storage, now, route, direct, money, input, attachments,
                   chatMessages, awaited, submits>>

\* useChat's stop(), which the component hands to its input and its block:
\* the request made last is aborted while it is in flight, and neither
\* onFinish nor onError is called for it.
ChatStop ==
    /\ fetches # << >>
    /\ fetches[Len(fetches)].state = "inFlight"
    /\ fetches' = SettledFetch(Len(fetches), "aborted")
    /\ UNCHANGED <<storage, now, route, direct, money, input, attachments,
                   chatMessages, invoiceProcessingStatus, awaited, submits>>

\* How many submissions and requests there may be for a child of the
\* component to make one more.
MaxFetches == 2

\* The user messages a child of the component appends.
ChildMessages ==
    {ChatMessage("user", <<"hello">>),
     ChatMessage("user", <<"process", "this", "invoice">>)}

\* The message of a request that posts no message.
NoMessage == ChatMessage("none", << >>)

\* A child of the component calls the append it was handed.
ChildAppends(message) ==
    /\ Len(fetches) + Len(awaited) < MaxFetches
    /\ append(message)
    /\ UNCHANGED <<storage, now, route, direct, money, input, attachments,
                   invoiceProcessingStatus, awaited, submits>>

\* A child calls useChat's reload(): the chat is posted again, without
\* its last message when that is an assistant message; with no messages
\* nothing is done.
Reload ==
    /\ Len(fetches) + Len(awaited) < MaxFetches
    /\ chatMessages # << >>
    /\ LET last == chatMessages[Len(chatMessages)]
           kept == IF last.role = "assistant"
                   THEN SubSeq(chatMessages, 1, Len(chatMessages) - 1)
                   ELSE chatMessages
       IN  /\ chatMessages' = kept
           /\ fetches' =
                 Append(fetches,
                        Fetch("reload",
                              IF kept = << >> THEN NoMessage
                                              ELSE kept[Len(kept)],
                              << >>))
    /\ UNCHANGED <<storage, now, route, direct, money, input, attachments,
                   invoiceProcessingStatus, awaited, submits>>

\* A child calls setMessages(list).
SetMessages(list) ==
    /\ chatMessages' = list
    /\ UNCHANGED <<storage, now, route, direct, money, input, attachments,
                   invoiceProcessingStatus, awaited, fetches, submits>>

ClientNext ==
    \/ \E text \in Inputs : SetInput(text)
    \/ \E list \in AttachmentLists : SetAttachments(list)
    \/ HandleFormSubmit
    \/ \E i \in DOMAIN awaited : HandleSubmitResolves(i)
    \/ \E i \in DOMAIN awaited : HandleSubmitThrows(i)
    \/ \E i \in DOMAIN fetches : ChatOnFinish(i)
    \/ \E i \in DOMAIN fetches : ChatOnError(i)
    \/ ChatStop
    \/ \E message \in ChildMessages : ChildAppends(message)
    \/ Reload
    \/ \E n \in 0..(Len(chatMessages) - 1) :
          SetMessages(SubSeq(chatMessages, 1, n))

\* The user types, attaches, submits and stops, the children of the
\* component append, reload and set the messages; the requests settle.
ClientSpec == Init /\ [][ClientNext]_vars

\* ------------------------------------------------------------- claims

Range(seq) == {seq[i] : i \in DOMAIN seq}

\* `line` has been written to the user for the current request.
Wrote(line) == line \in Range(dataStream)

\* A line of the given fixed text has been written, whatever it interpolates.
WroteText(text) == \E line \in Range(dataStream) : line.text = text

WroteRejection   == WroteText(RejectedLine(<< >>).text)
WroteSaveFailure == WroteText(SaveFailedLine("").text)

\* onFinish of an invoice request got past saveMessages into the invoice
\* branch.
Examined ==
    /\ isInvoiceProcessing
    /\ onFinish \in {"done", "invoiceInserted", "lineItemsInserted"}
    /\ Logged("Failed to save chat:", << >>) \notin Range(console)

\* The response holds an assistant message.
HasAnswer == \E i \in DOMAIN response : response[i].role = "assistant"

\* The text of the assistant message the branch reads.
AnswerText ==
    IF HasAnswer
    THEN ContentOf(response[FindAssistant(response)])
    ELSE << >>

\* The content of that message as it is, a string or an array of parts.
AnswerContent ==
    IF HasAnswer
    THEN Content(response[FindAssistant(response)])
    ELSE Content(Assistant(<< >>))

\* What is left of the answer without code fences and white space.
AnswerBody ==
    SelectSeq(AnswerText, LAMBDA tok : tok \notin {FenceJson, Fence, NL, SP})

\* The answer is one JSON document, possibly fenced and padded.
Decodable == Len(AnswerBody) = 1 /\ AnswerBody[1].t = "json"

\* The value the answer denotes.
Answer == IF Decodable THEN AnswerBody[1].v ELSE JsonNull

\* The answer is an object with a `validation` object and a `data` object.
WellShaped ==
    /\ Decodable
    /\ Answer.k = "object"
    /\ Answer.validation.k = "object"

DeclaredValid == WellShaped /\ Answer.validation.status = Str("valid")

NothingStored ==
    /\ invoiceTable = tablesAtStart.invoice
    /\ lineItemTable = tablesAtStart.lineItem

C2_InvalidIsRejected ==
    (Examined /\ WellShaped /\ Answer.validation.status # Str("valid")) =>
        /\ WroteRejection
        /\ ~Wrote(SavedLine)
        /\ ~WroteSaveFailure
        /\ saveCalls = 0
        /\ NothingStored

\* The invalid-status scenario of the specification has been rejected.
C2_Witness ==
    /\ Examined
    /\ WellShaped
    /\ Answer.validation.status = Str("invalid")
    /\ Wrote(RejectedLine(<<"Missing total amount">>))

\* C3: when saveInvoice has thrown its error, nothing of that call is left
\* in storage.
C3_SaveInvoiceAtomic ==
    (onFinish = "done" /\ saveCalls = 1 /\ Wrote(SaveFailedLine(SaveInvoiceError)))
        => NothingStored

\* The outcome lines of the six terminal states.
OutcomeTexts ==
    {SavedLine.text, RejectedLine(<< >>).text, ParseFailedLine.text,
     NoResultLine.text, SaveFailedLine("").text, TimeoutLine.text,
     GenericErrorLine.text}

\* C4: when every callback of an invoice request has run, exactly one
\* outcome line has been written for it.
C4_ExactlyOneOutcome ==
    (requests > 0 /\ isInvoiceProcessing /\ Settled) =>
        /\ Len(dataStream) = 1
        /\ dataStream[1].text \in OutcomeTexts

\* C5: a result declared valid whose data lacks a required field is
\* rejected and saveInvoice is not called.
C5_MissingFieldRejected ==
    (Examined /\ DeclaredValid /\ Answer.data.k = "object"
       /\ \E f \in RequiredFields : Answer.data[f] = Undefined) =>
        /\ WroteRejection
        /\ saveCalls = 0

\* C6: a result declared valid whose dueDate is before its issueDate is
\* rejected, and every stored invoice has dueDate on or after issueDate.
C6_DueNotBeforeIssue ==
    /\ (Examined /\ DeclaredValid /\ Answer.data.k = "object"
          /\ Answer.data.issueDate.s \in DOMAIN IsoDates
          /\ Answer.data.dueDate.s \in DOMAIN IsoDates
          /\ IsoDates[Answer.data.dueDate.s] < IsoDates[Answer.data.issueDate.s])
         => (WroteRejection /\ saveCalls = 0)
    /\ \A i \in DOMAIN invoiceTable :
          invoiceTable[i].dueDate.n >= invoiceTable[i].issueDate.n

\* C7: no stored invoice has a negative totalAmount, and a result declared
\* valid with a negative totalAmount never reaches saveInvoice.
C7_NoNegativeTotal ==
    /\ \A i \in DOMAIN invoiceTable : invoiceTable[i].totalAmount.n >= 0
    /\ (Examined /\ DeclaredValid /\ Answer.data.k = "object"
          /\ Answer.data.totalAmount.k = "number"
          /\ Answer.data.totalAmount.n < 0)
         => (WroteRejection /\ saveCalls = 0)

\* C8: an answer that is not one JSON document once fences and white space
\* are stripped ends in the parse-failure line, with the raw content logged,
\* no other outcome line written by onFinish, saveInvoice not called and
\* nothing stored.
C8_ParseErrorReported ==
    (Examined /\ HasAnswer /\ ~Decodable) =>
        /\ Wrote(ParseFailedLine)
        /\ ~WroteSaveFailure
        /\ ~Wrote(SavedLine)
        /\ ~WroteRejection
        /\ Logged("Raw content:", AnswerContent) \in Range(console)
        /\ saveCalls = 0
        /\ NothingStored

\* Prose in front of the fenced document has ended in the parse failure.
C8_Witness ==
    /\ Examined
    /\ Prose \in Range(AnswerText)
    /\ \E i \in DOMAIN AnswerText : AnswerText[i].t = "json"
    /\ Wrote(ParseFailedLine)

\* C9: a decoded object without `validation` or without `data` ends in the
\* parse-failure line, not in a rejection or a save failure, and nothing is
\* stored.
C9_MalformedSchemaIsParseError ==
    (Examined /\ Decodable /\ Answer.k = "object"
       /\ (Answer.validation.k = "undefined" \/ Answer.data.k = "undefined")) =>
        /\ Wrote(ParseFailedLine)
        /\ ~WroteRejection
        /\ ~WroteSaveFailure
        /\ NothingStored

\* A line item carries what its NOT NULL columns need.
WellFormedItem(item) ==
    /\ item.description.k = "string"
    /\ item.quantity.k \in {"integer", "number"}
    /\ item.unitPrice.k = "number"
    /\ item.totalPrice.k = "number"

\* Status valid and every required field present.
AcceptedPayload ==
    /\ DeclaredValid
    /\ Answer.data.k = "object"
    /\ \A f \in {"invoiceNumber", "customerName", "vendorName"} :
          Answer.data[f].k = "string"
    /\ Answer.data.issueDate.s \in DOMAIN IsoDates
    /\ Answer.data.dueDate.s \in DOMAIN IsoDates
    /\ Answer.data.totalAmount.k = "number"
    /\ \A i \in DOMAIN Answer.data.lineItems.items :
          WellFormedItem(Answer.data.lineItems.items[i])

\* `cents` is 100 times the amount of `m` thousandths, rounded to a nearest
\* integer.
NearestCents(cents, m) ==
    /\ cents * 10 - m <= 5
    /\ m - cents * 10 <= 5

\* C10: an accepted payload whose inserts the storage does not fail ends in
\* the success line with exactly one new Invoice row: totalAmount is 100
\* times the decimal amount rounded to the nearest integer, currency is the
\* payload's or USD, status is validated, the identifier is new and the
\* creation time is set.
C10_AcceptedIsPersisted ==
    (Examined /\ onFinish = "done" /\ AcceptedPayload /\ ~faulted) =>
        /\ Wrote(SavedLine)
        /\ ~WroteSaveFailure
        /\ ~WroteRejection
        /\ Len(invoiceTable) = Len(tablesAtStart.invoice) + 1
        /\ SubSeq(invoiceTable, 1, Len(invoiceTable) - 1) = tablesAtStart.invoice
        /\ LET row == invoiceTable[Len(invoiceTable)]
               data == Answer.data
           IN  /\ row.totalAmount.k = "integer"
               /\ NearestCents(row.totalAmount.n, data.totalAmount.n)
               /\ row.currency =
                     IF data.currency.k = "string" /\ data.currency.s # ""
                     THEN data.currency ELSE Str("USD")
               /\ row.status = Str("validated")
               /\ \A i \in DOMAIN tablesAtStart.invoice :
                     tablesAtStart.invoice[i].id # row.id
               /\ row.createdAt.k = "integer"
               /\ row.createdAt.n * 1000 <= now * TickMs

\* The fenced scenario payload of the specification is stored as 12050 USD.
C10_Witness ==
    /\ Examined
    /\ onFinish = "done"
    /\ AnswerText = <<FenceJson, NL, JsonText(Accepted), NL, Fence>>
    /\ Wrote(SavedLine)
    /\ invoiceTable[Len(invoiceTable)].totalAmount = Int32(12050)
    /\ invoiceTable[Len(invoiceTable)].currency = Str("USD")

\* A text column holds the submitted string, or NULL for a field left out.
SameText(column, v) == column = IF v.k = "string" THEN v ELSE Null

\* An amount column read back as a decimal is the submitted amount.
SameAmount(column, v) ==
    IF v.k = "number"
    THEN column.k = "integer" /\ column.n * 10 = v.n
    ELSE column = Null

\* A timestamp column read back as a Date is the submitted Date.
SameDate(column, d) == column.k = "integer" /\ column.n * 1000 = d.n

\* A whole-number column holds the submitted number.
SameNumber(column, v) == column = IF v.k = "integer" THEN v ELSE Null

\* The Invoice row carries every submitted field of `data`.
SameInvoice(row, data) ==
    /\ \A f \in {"invoiceNumber", "customerName", "customerAddress",
                 "customerContact", "customerTaxId", "vendorName",
                 "vendorAddress", "vendorContact", "vendorTaxId",
                 "paymentTerms", "notes", "originalFileUrl"} :
          SameText(row[f], data[f])
    /\ SameDate(row.issueDate, data.issueDate)
    /\ SameDate(row.dueDate, data.dueDate)
    /\ SameAmount(row.totalAmount, data.totalAmount)
    /\ Truthy(data.currency) => row.currency = data.currency

\* The InvoiceLineItem row carries every submitted field of `item`.
SameItem(row, item) ==
    /\ SameText(row.description, item.description)
    /\ SameText(row.sku, item.sku)
    /\ SameText(row.category, item.category)
    /\ SameNumber(row.quantity, item.quantity)
    /\ SameNumber(row.taxRate, item.taxRate)
    /\ SameAmount(row.unitPrice, item.unitPrice)
    /\ SameAmount(row.totalPrice, item.totalPrice)
    /\ SameAmount(row.taxAmount, item.taxAmount)

\* Every amount of `data` has at most two fractional digits and its dates
\* are whole seconds: the values the columns hold without loss.
Representable(data) ==
    /\ data.totalAmount.k = "number" /\ data.totalAmount.n % 10 = 0
    /\ data.issueDate.k = "date" /\ data.issueDate.n % 1000 = 0
    /\ data.dueDate.k = "date" /\ data.dueDate.n % 1000 = 0
    /\ \A i \in DOMAIN data.lineItems.items :
          \A f \in {"unitPrice", "totalPrice", "taxAmount"} :
             data.lineItems.items[i][f].k = "number" =>
                data.lineItems.items[i][f].n % 10 = 0

\* What the two reads return for the call of `c` is what it submitted.
RoundTrip(c) ==
    LET invoices == getInvoiceById(calls[c].invoiceId)
        rows     == getInvoiceLineItems(calls[c].invoiceId)
        items    == calls[c].data.lineItems.items
    IN  /\ Len(invoices) = 1
        /\ SameInvoice(invoices[1], calls[c].data)
        /\ Len(rows) = Len(items)
        /\ \A i \in DOMAIN items : SameItem(rows[i], items[i])

\* C11: in the state a saveInvoice call returns in, getInvoiceById and
\* getInvoiceLineItems of its invoiceId give the submitted invoice and line
\* items, field by field, every submitted item and no other (for data the
\* columns hold without loss, and an invoice that was not removed).
C11_RoundTrip ==
    [][\A c \in Callers :
          (/\ calls[c].pc # "returned"
           /\ calls'[c].pc = "returned"
           /\ getInvoiceById(calls[c].invoiceId) # << >>
           /\ Representable(calls'[c].data)) => RoundTrip(c)']_vars

\* C12: an amount of at most two fractional digits that is not negative,
\* converted to minor units and back, is the amount.
C12_MinorUnitsRoundTrip ==
    (decimal # Undefined /\ amount.n >= 0 /\ amount.n % 10 = 0) =>
        decimal = amount

\* 1.29 has gone to 129 minor units and back to 1.29.
C12_Witness ==
    /\ amount = Num(1290)
    /\ minorUnits = Int32(129)
    /\ decimal = Num(1290)

\* C13: in every storage state an invoice carries processingErrors only
\* while its status is invalid.
C13_ErrorsOnlyWhenInvalid ==
    \A i \in DOMAIN invoiceTable :
        invoiceTable[i].processingErrors # Null =>
            invoiceTable[i].status = Str("invalid")

\* C14: an updateInvoiceStatus call whose id matches no Invoice row throws
\* NotFound and leaves both tables as they were.
C14_UnknownIdIsNotFound ==
    [][(updates' # updates /\ getInvoiceById(returned'.id) = << >>) =>
          /\ returned'.threw = "NotFound"
          /\ invoiceTable' = invoiceTable
          /\ lineItemTable' = lineItemTable]_vars

\* The Invoice row of the call of `c` is stored and its line items are not
\* yet.
HalfWritten(c) ==
    /\ calls[c].pc = "invoiceInserted"
    /\ calls[c].data.lineItems.items # << >>
    /\ getInvoiceById(calls[c].invoiceId) # << >>
    /\ getInvoiceLineItems(calls[c].invoiceId) = << >>

\* C15: while the Invoice row of a call in progress is stored without its
\* line items, no step but that call's own is taken: no query reads the
\* tables and no other saveInvoice call writes to them.
C15_SaveInvoiceIsolated ==
    [][\A c \in Callers : HalfWritten(c) => calls'[c] # calls[c]]_vars

ReasonsOf(validation) ==
    IF validation.errors.k = "array" /\ validation.errors.items # << >>
    THEN validation.errors.items
    ELSE <<"Unknown validation error">>

\* C17: a result whose validation.status is not "valid" is rejected with
\* exactly validation.errors in their order, and with the one reason
\* "Unknown validation error" when errors is absent or an empty list.
C17_ReasonsReported ==
    (Examined /\ WellShaped /\ Answer.validation.status # Str("valid")) =>
        Wrote(RejectedLine(ReasonsOf(Answer.validation)))

\* `s` is the beginning of `t`.
IsPrefix(s, t) == Len(s) <= Len(t) /\ SubSeq(t, 1, Len(s)) = s

\* C18: a step of a saveInvoice call leaves every row that was stored
\* before it as it was and in its place, adds at most one Invoice row, and
\* leaves no two Invoice rows with the same id.
C18_SaveInvoiceOnlyAdds ==
    [][calls' # calls =>
          /\ IsPrefix(invoiceTable, invoiceTable')
          /\ IsPrefix(lineItemTable, lineItemTable')
          /\ Len(invoiceTable') <= Len(invoiceTable) + 1
          /\ \A i, j \in DOMAIN invoiceTable' :
                i # j => invoiceTable'[i].id # invoiceTable'[j].id]_vars

\* Two calls with the same invoiceNumber have returned and left two rows
\* with that number under the two identifiers.
C18_Witness ==
    /\ calls["a"].pc = "returned"
    /\ calls["b"].pc = "returned"
    /\ calls["a"].data.invoiceNumber = calls["b"].data.invoiceNumber
    /\ calls["a"].invoiceId # calls["b"].invoiceId
    /\ Len(invoiceTable) = 2
    /\ invoiceTable[1].invoiceNumber = invoiceTable[2].invoiceNumber
    /\ {invoiceTable[1].id, invoiceTable[2].id} =
          {calls["a"].invoiceId, calls["b"].invoiceId}

\* C19: every InvoiceLineItem row refers to a stored Invoice row, also
\* after the removal of an invoice was asked for.
C19_NoOrphanedLineItems ==
    \A i \in DOMAIN lineItemTable :
        getInvoiceById(lineItemTable[i].invoiceId) # << >>

\* The removal of an invoice with line items was asked for and blocked:
\* the invoice and its line items are still stored.
C19_Witness ==
    /\ returned.op = "deleteInvoice"
    /\ returned.threw # ""
    /\ getInvoiceById(returned.id) # << >>
    /\ getInvoiceLineItems(returned.id) # << >>

\* C20: within a request saveInvoice is called at most once, and once the
\* save failure is written onFinish has returned and no later step of the
\* request calls saveInvoice, reads another response, writes a row or takes
\* the failure line back.
C20_NoRetryAfterSaveFailure ==
    [][requests' = requests =>
          /\ saveCalls' <= 1
          /\ WroteSaveFailure =>
                /\ onFinish = "done"
                /\ onFinish' = "done"
                /\ saveCalls' = saveCalls
                /\ response' = response
                /\ invoiceTable' = invoiceTable
                /\ lineItemTable' = lineItemTable
                /\ SaveFailedLine("").text \in
                      {dataStream'[i].text : i \in DOMAIN dataStream'}]_vars

\* saveInvoice was called once, threw, and the request ended with the
\* failure line.
C20_Witness ==
    /\ saveCalls = 1
    /\ onFinish = "done"
    /\ Wrote(SaveFailedLine(SaveInvoiceError))
    /\ ~Wrote(SavedLine)

\* The totalPrice of the item is off quantity times unitPrice by more than
\* a cent.
Mismatched(item) ==
    /\ WellFormedItem(item)
    /\ LET off == item.totalPrice.n - item.quantity.n * item.unitPrice.n
       IN  off > 10 \/ off < -10

\* C21: an accepted payload with a line item whose totalPrice is not
\* quantity times unitPrice ends, when the storage does not fail, in the
\* success line and not in a rejection, with its Invoice row and all its
\* line items stored.
C21_MismatchIsStillSaved ==
    (/\ Examined
     /\ onFinish = "done"
     /\ AcceptedPayload
     /\ ~faulted
     /\ \E i \in DOMAIN Answer.data.lineItems.items :
           Mismatched(Answer.data.lineItems.items[i])) =>
        /\ Wrote(SavedLine)
        /\ ~WroteRejection
        /\ ~WroteSaveFailure
        /\ Len(invoiceTable) = Len(tablesAtStart.invoice) + 1
        /\ Len(lineItemTable) =
              Len(tablesAtStart.lineItem) + Len(Answer.data.lineItems.items)

\* The payload whose first item is 3 x 1.005 for 4.00 has been saved with
\* both its line items.
C21_Witness ==
    /\ Examined
    /\ onFinish = "done"
    /\ DeclaredValid
    /\ Answer.data.lineItems = Items(<<Item3, Item1>>)
    /\ Mismatched(Item3)
    /\ Wrote(SavedLine)
    /\ Len(lineItemTable) = 2
    /\ lineItemTable[1].totalPrice = Int32(400)

\* C23: the save-failure line carries the same text whatever error was
\* raised inside the request.
C23_MessageIndependentOfError ==
    \A i \in DOMAIN dataStream :
        dataStream[i].text = SaveFailedLine("").text =>
            dataStream[i] = SaveFailedLine(SaveInvoiceError)

C26_OutcomeMatchesStorage ==
    /\ Wrote(SavedLine) =>
          /\ saveCalls = 1
          /\ onFinish = "done"
          /\ Len(invoiceTable) = Len(tablesAtStart.invoice) + 1
    /\ (WroteRejection \/ Wrote(ParseFailedLine) \/ WroteSaveFailure) =>
          NothingStored

\* The lines onFinish writes for an invoice request.
OnFinishTexts ==
    {SavedLine.text, RejectedLine(<< >>).text, ParseFailedLine.text,
     NoResultLine.text, SaveFailedLine("").text}

\* onFinish has written a line.
WroteOutcome ==
    \E i \in DOMAIN dataStream : dataStream[i].text \in OnFinishTexts

\* C27: before the messages are saved, and when saving them failed,
\* saveInvoice is not called, nothing is stored and onFinish writes no line;
\* a request without the trigger phrase never calls saveInvoice.
C27_SaveOnlyAfterMessagesSaved ==
    /\ (onFinish \in {"pending", "saveMessages"}
          \/ Logged("Failed to save chat:", << >>) \in Range(console)) =>
          /\ saveCalls = 0
          /\ NothingStored
          /\ ~WroteOutcome
    /\ ~isInvoiceProcessing =>
          /\ saveCalls = 0
          /\ NothingStored
          /\ ~WroteOutcome

\* Saving the messages of an invoice request failed: onFinish is over with
\* the failure logged, saveInvoice not called and no line written.
C27_Witness ==
    /\ isInvoiceProcessing
    /\ onFinish = "done"
    /\ Logged("Failed to save chat:", << >>) \in Range(console)
    /\ HasAnswer
    /\ saveCalls = 0
    /\ ~WroteOutcome

\* The row is the submitted item in every column but taxAmount.
SameSubmittedItem(row, item) ==
    /\ SameText(row.description, item.description)
    /\ SameText(row.sku, item.sku)
    /\ SameText(row.category, item.category)
    /\ SameNumber(row.quantity, item.quantity)
    /\ SameNumber(row.taxRate, item.taxRate)
    /\ SameAmount(row.unitPrice, item.unitPrice)
    /\ SameAmount(row.totalPrice, item.totalPrice)

\* C22: what a getInvoiceLineItems(id) call returns, for the id of a
\* saveInvoice call that returned, is its line items, as many as were
\* submitted and in the order they were submitted in; for an id no Invoice
\* row carries it is empty.
C22_LineItemsInSubmissionOrder ==
    [][(/\ returned' # returned
        /\ returned'.op = "getInvoiceLineItems"
        /\ returned'.threw = "") =>
          /\ \A c \in Callers :
                (/\ calls[c].pc = "returned"
                 /\ calls[c].invoiceId = returned'.id
                 /\ Representable(calls[c].data)) =>
                   LET items == calls[c].data.lineItems.items
                       rows  == returned'.rows
                   IN  /\ Len(rows) = Len(items)
                       /\ \A i \in DOMAIN items :
                             SameSubmittedItem(rows[i], items[i])
          /\ getInvoiceById(returned'.id) = << >> =>
                returned'.rows = << >>]_vars

\* The read of a returned call's invoice gave Widget, then Service, as
\* they were submitted.
C22_Witness ==
    /\ returned.op = "getInvoiceLineItems"
    /\ returned.threw = ""
    /\ Len(returned.rows) = 2
    /\ returned.rows[1].description = Str("Widget")
    /\ returned.rows[2].description = Str("Service")
    /\ \E c \in Callers :
          /\ calls[c].pc = "returned"
          /\ calls[c].invoiceId = returned.id
          /\ calls[c].data.lineItems.items = <<Item1, Item2>>

\* C28: once the line items of a saveInvoice call are inserted, every row
\* carries round(100 * taxAmount) where a taxAmount was submitted, 0
\* included, and no taxAmount only where none was submitted.
C28_TaxAmountPresencePreserved ==
    \A c \in Callers :
       calls[c].pc \in {"lineItemsInserted", "returned"} =>
          LET items == calls[c].data.lineItems.items
              rows  == getInvoiceLineItems(calls[c].invoiceId)
          IN  Len(rows) = Len(items) =>
                 \A i \in DOMAIN items :
                    rows[i].taxAmount =
                       IF items[i].taxAmount.k = "number"
                       THEN IntegerColumn(toCents(items[i].taxAmount))
                       ELSE Null

\* C29: a step of updateInvoiceStatus(id, ..) leaves the line items, the
\* number and order of the invoices, every invoice of another id, and of
\* the invoice of that id every column but status and processingErrors
\* as they were; a step of getInvoiceById or getInvoiceLineItems leaves
\* both tables as they were.
C29_UpdateChangesOnlyStatus ==
    [][/\ updates' # updates =>
            /\ lineItemTable' = lineItemTable
            /\ nextId' = nextId
            /\ DOMAIN invoiceTable' = DOMAIN invoiceTable
            /\ \A i \in DOMAIN invoiceTable :
                  IF invoiceTable[i].id = returned'.id
                  THEN invoiceTable'[i] =
                          [invoiceTable[i] EXCEPT
                              !.status = invoiceTable'[i].status,
                              !.processingErrors =
                                  invoiceTable'[i].processingErrors]
                  ELSE invoiceTable'[i] = invoiceTable[i]
       /\ (/\ returned' # returned
           /\ returned'.op \in {"getInvoiceById", "getInvoiceLineItems"}) =>
             storage' = storage]_vars

\* The second invoice was set to invalid with its errors; the first is
\* as it was saved, without errors, and the line items are the two stored.
C29_Witness ==
    /\ returned = Returned("updateInvoiceStatus", Uuid(1), "", << >>)
    /\ Len(invoiceTable) = 2
    /\ invoiceTable[2].id = Uuid(1)
    /\ invoiceTable[2].status = Str("invalid")
    /\ invoiceTable[2].processingErrors # Null
    /\ invoiceTable[1].status # Str("invalid")
    /\ invoiceTable[1].processingErrors = Null
    /\ invoiceTable[2].invoiceNumber = Str("INV-1")
    /\ Len(lineItemTable) = 2

\* The input carries the trigger phrase, in any case.
Triggered == includes(toLowerCase(input), <<"process", "this", "invoice">>)

\* An attachment comes first and is of an invoice file type.
InvoiceFileFirst ==
    /\ Len(attachments) > 0
    /\ ContentType(attachments[1]) \in InvoiceFileTypes

\* C24: a submit of the form with the trigger phrase in the input starts a
\* submission only when an attachment of an invoice file type comes first;
\* otherwise it appends one assistant notice, makes no request to the chat
\* API and does not set the processing status.
C24_NoticeWithoutRequest ==
    [][(submits' # submits /\ Triggered) =>
          IF InvoiceFileFirst
          THEN Len(awaited') = Len(awaited) + 1
          ELSE /\ awaited' = awaited
               /\ Len(chatMessages') = Len(chatMessages) + 1
               /\ chatMessages'[Len(chatMessages')].role = "assistant"
               /\ invoiceProcessingStatus' = invoiceProcessingStatus
               /\ fetches' = fetches]_vars

\* A submission by handleInvoiceProcessing is awaited or its request has
\* not been settled.
InvoiceRequestUnderWay ==
    \/ awaited # << >>
    \/ \E i \in DOMAIN fetches :
          /\ fetches[i].via = "handleInvoiceProcessing"
          /\ fetches[i].state = "inFlight"

\* C30: the processing status is set only while a submission by
\* handleInvoiceProcessing is under way (awaited, or its request in
\* flight), so that it is not left set once the request has ended; and the
\* step in which onFinish or onError is called for a request, or in which
\* the awaited handleSubmit throws, leaves it undefined.
C30_StatusClearedOnceSettled ==
    [][/\ invoiceProcessingStatus' # Undefined => InvoiceRequestUnderWay'
       /\ (\E i \in DOMAIN fetches :
              /\ fetches[i].state = "inFlight"
              /\ fetches'[i].state \in {"finished", "errored"})
             => invoiceProcessingStatus' = Undefined
       /\ (Len(awaited') < Len(awaited) /\ chatMessages' # chatMessages
           /\ chatMessages'[Len(chatMessages')] = FailedNotice)
             => invoiceProcessingStatus' = Undefined]_vars


====
